---- MODULE Spec2Model ----
(***************************************************************************)
(* Model of final_main.py: the weather pipeline                            *)
(*   main -> filter_data -> fill_missing_values -> menu -> reporting.      *)
(*                                                                         *)
(* Tables are pandas DataFrames, files are CSV texts.  A cell is a record  *)
(*   [k, f, a, b, c, s]                                                    *)
(* k is the kind of the value: "text" for a cell of a CSV file, and for a  *)
(* DataFrame cell "nan" (missing), "int" (int64), "float" (float64),       *)
(* "str" (a Python str), "date", "time" (datetime.date / datetime.time)    *)
(* and "datetime" (a UTC timestamp).  f is the form of the characters of a *)
(* text or of a str: "empty", "int" (decimal digits of a), "float" (repr   *)
(* of the float a/b, always with a '.'), "word" (the non-numeric text s),  *)
(* "date" (YYYY-MM-DD of a), "time" (HH:00:00 of b), "ts" (date a, hour b, *)
(* UTC offset c hours).  float64 values are modelled as exact rationals    *)
(* a/b in lowest terms; rounding of binary floating point is not modelled. *)
(* pandas semantics assumed: 2.x (Series.fillna(inplace=True) on a column  *)
(* selected from a frame updates the frame).                               *)
(***************************************************************************)
EXTENDS Integers, Sequences, FiniteSets, TLC

\* ------------------------------------------------------------------ bounds
\* Largest number of data rows of the input file.
MaxRows == 3

\* ----------------------------------------------------------- configuration
DATA_FILE == "EnglandWeather.csv"
FILTERED_DATA_FILE == "filtered_data.csv"
FILLED_DATA_FILE == "filled_data.csv"

MONTH_NAMES ==
  << "January", "February", "March", "April", "May", "June",
     "July", "August", "September", "October", "November", "December" >>

\* December entered with the autumn months.
SEASON_MAP_december_fall ==
  [ m \in { MONTH_NAMES[i] : i \in 1..12 } |->
      IF m \in {"March", "April", "May"} THEN "Spring"
      ELSE IF m \in {"June", "July", "August"} THEN "Summer"
      ELSE IF m \in {"September", "October", "November", "December"} THEN "Fall"
      ELSE "Winter" ]

SEASON_MAP ==
  [ m \in { MONTH_NAMES[i] : i \in 1..12 } |->
      IF m \in {"March", "April", "May"} THEN "Spring"
      ELSE IF m \in {"June", "July", "August"} THEN "Summer"
      ELSE IF m \in {"September", "October", "November"} THEN "Fall"
      ELSE "Winter" ]

\* Column names of the raw file, in the order filter_data uses them.
RawColumns ==
  << "Formatted Date", "Summary", "Precip Type", "Temperature (C)",
     "Wind Speed (km/h)", "Pressure (millibars)", "Humidity" >>

selected_columns ==
  << "date", "time", "year", "month", "hour", "season",
     "Summary", "Precip Type", "Temperature (C)",
     "Wind Speed (km/h)", "Pressure (millibars)", "Humidity(%)" >>

numerical_columns ==
  << "Temperature (C)", "Wind Speed (km/h)",
     "Pressure (millibars)", "Humidity(%)" >>

Range(q) == { q[i] : i \in DOMAIN q }

\* ------------------------------------------------------------------- cells
Cell(k, f, a, b, c, s) == [k |-> k, f |-> f, a |-> a, b |-> b, c |-> c, s |-> s]

\* CSV texts
TEmpty == Cell("text", "empty", 0, 1, 0, "")
TInt(n) == Cell("text", "int", n, 1, 0, "")
TFloat(n, d) == Cell("text", "float", n, d, 0, "")
TWord(w) == Cell("text", "word", 0, 1, 0, w)
TTs(ymd, h, off) == Cell("text", "ts", ymd, h, off, "")

\* DataFrame values
NaN == Cell("nan", "", 0, 1, 0, "")
IntV(n) == Cell("int", "", n, 1, 0, "")
StrV(t) == [t EXCEPT !.k = "str"]
DateV(ymd) == Cell("date", "", ymd, 0, 0, "")
TimeV(h) == Cell("time", "", 0, h, 0, "")
DatetimeV(ymd, h) == Cell("datetime", "", ymd, h, 0, "")

isnull(v) == v.k = "nan"

Abs(n) == IF n < 0 THEN -n ELSE n

RECURSIVE Gcd(_, _)
Gcd(x, y) == IF y = 0 THEN x ELSE Gcd(y, x % y)

\* float64 value n/d, kept in lowest terms with a positive denominator.
FloatV(n, d) ==
  LET g == Gcd(Abs(n), Abs(d))
      sgn == IF d < 0 THEN -1 ELSE 1
  IN  Cell("float", "", sgn * (n \div g), sgn * (d \div g), 0, "")

\* ------------------------------------------------------------ CSV boundary
\* DataFrame.to_csv(index=False): the text written for one value.
FormatCell(v) ==
  CASE v.k = "nan" -> TEmpty
    [] v.k = "int" -> TInt(v.a)
    [] v.k = "float" -> TFloat(v.a, v.b)
    [] v.k = "str" -> [v EXCEPT !.k = "text"]
    [] v.k = "date" -> Cell("text", "date", v.a, 0, 0, "")
    [] v.k = "time" -> Cell("text", "time", 0, v.b, 0, "")
    [] OTHER -> Cell("text", "ts", v.a, v.b, 0, "")

\* A CSV file and a DataFrame: the header in order, and the rows as functions
\* from column name to cell.  A file also records whether it exists.
Absent == [ exists |-> FALSE, hdr |-> << >>, rows |-> << >> ]

None == [ hdr |-> << >>, rows |-> << >> ]

to_csv(df) ==
  [ exists |-> TRUE,
    hdr |-> df.hdr,
    rows |-> [ i \in DOMAIN df.rows |->
                 [ col \in Range(df.hdr) |-> FormatCell(df.rows[i][col]) ] ] ]

\* pandas.read_csv infers one dtype per column from the texts of the column:
\* int64 when every cell is an integer literal, float64 when every non-empty
\* cell is numeric (empty cells are NaN), object (str and NaN) otherwise.
ColumnDtype(rows, col) ==
  LET forms == { rows[i][col].f : i \in DOMAIN rows }
  IN  IF forms \subseteq {"empty"} THEN "float"
      ELSE IF forms \subseteq {"int"} THEN "int"
      ELSE IF forms \subseteq {"int", "float", "empty"} THEN "float"
      ELSE "object"

ParseCell(t, dtype) ==
  IF t.f = "empty" THEN NaN
  ELSE IF dtype = "int" THEN IntV(t.a)
  ELSE IF dtype = "float" THEN FloatV(t.a, t.b)
  ELSE StrV(t)

read_csv(file) ==
  LET dtype == [ col \in Range(file.hdr) |-> ColumnDtype(file.rows, col) ]
  IN  [ hdr |-> file.hdr,
        rows |-> [ i \in DOMAIN file.rows |->
                     [ col \in Range(file.hdr) |->
                         ParseCell(file.rows[i][col], dtype[col]) ] ] ]

\* ------------------------------------------------------------- timestamps
YearOf(ymd) == ymd \div 10000
MonthOf(ymd) == (ymd \div 100) % 100
DayOf(ymd) == ymd % 100
Ymd(y, m, d) == y * 10000 + m * 100 + d

IsLeap(y) == (y % 4 = 0 /\ y % 100 # 0) \/ y % 400 = 0

DaysInMonth(y, m) ==
  IF m = 2 THEN (IF IsLeap(y) THEN 29 ELSE 28)
  ELSE IF m \in {4, 6, 9, 11} THEN 30 ELSE 31

PrevDay(ymd) ==
  LET y == YearOf(ymd)
      m == MonthOf(ymd)
      d == DayOf(ymd)
  IN  IF d > 1 THEN Ymd(y, m, d - 1)
      ELSE IF m > 1 THEN Ymd(y, m - 1, DaysInMonth(y, m - 1))
      ELSE Ymd(y - 1, 12, 31)

NextDay(ymd) ==
  LET y == YearOf(ymd)
      m == MonthOf(ymd)
      d == DayOf(ymd)
  IN  IF d < DaysInMonth(y, m) THEN Ymd(y, m, d + 1)
      ELSE IF m < 12 THEN Ymd(y, m + 1, 1)
      ELSE Ymd(y + 1, 1, 1)

\* pd.to_datetime(..., utc=True) of one cell of the "Formatted Date" column:
\* a timestamp text is moved to UTC (local time minus its offset), a missing
\* cell becomes NaT, any other text cannot be parsed.
CanParse(v) == isnull(v) \/ (v.k = "str" /\ v.f = "ts")

\* pd.to_datetime without utc=True: the wall-clock fields, offset dropped.
to_datetime_local(v) ==
  IF isnull(v) THEN NaN ELSE DatetimeV(v.a, v.b)

to_datetime(v) ==
  IF isnull(v) THEN NaN
  ELSE LET h == v.b - v.c
       IN  IF h < 0 THEN DatetimeV(PrevDay(v.a), h + 24)
           ELSE IF h > 23 THEN DatetimeV(NextDay(v.a), h - 24)
           ELSE DatetimeV(v.a, h)

\* The instant of a UTC timestamp as one number, for ordering.
Instant(v) == v.a * 100 + v.b

\* ------------------------------------------------------------ filter_data
\* sort_values(by="Formatted Date") uses the default kind="quicksort", which
\* is not a stable sort: the result is some ordering of the rows that is
\* ascending by the key, rows with equal keys in an unspecified order.
\* A permutation p gives the input position of each output row.
RowOrders(n) ==
  { p \in [1..n -> 1..n] : \A i, j \in 1..n : i # j => p[i] # p[j] }

SortOrders(keys) ==
  { p \in RowOrders(Len(keys)) :
      \A i \in 1..(Len(keys) - 1) : keys[p[i]] <= keys[p[i + 1]] }

\* df["Humidity"] * 100
Times100(v) ==
  IF v.k = "int" THEN IntV(v.a * 100)
  ELSE IF v.k = "float" THEN FloatV(v.a * 100, v.b)
  ELSE NaN

\* The derived row of one raw row whose timestamp is ts (UTC).
DeriveRow(r, ts) ==
  LET month == MONTH_NAMES[MonthOf(ts.a)]
  IN  [ col \in Range(selected_columns) |->
          CASE col = "date" -> DateV(ts.a)
            [] col = "time" -> TimeV(ts.b)
            [] col = "year" -> StrV(TInt(YearOf(ts.a)))
            [] col = "month" -> StrV(TWord(month))
            [] col = "hour" -> IntV(ts.b)
            [] col = "season" -> StrV(TWord(SEASON_MAP[month]))
            [] col = "Humidity(%)" -> Times100(r["Humidity"])
            [] OTHER -> r[col] ]

\* The exception filter_data's try block raises on data, "" when none:
\* KeyError for an absent column, ValueError for a timestamp that cannot be
\* parsed, TypeError when the month lookup meets a missing timestamp (NaT).
FilterError(data) ==
  LET cols == Range(data.hdr)
      dates == { data.rows[i]["Formatted Date"] : i \in DOMAIN data.rows }
  IN  IF "Formatted Date" \notin cols THEN "KeyError"
      ELSE IF \E v \in dates : ~CanParse(v) THEN "ValueError"
      ELSE IF \E v \in dates : isnull(v) THEN "TypeError"
      ELSE IF Range(RawColumns) \subseteq cols THEN ""
      ELSE "KeyError"

\* df_filtered for the ordering p chosen by the sort.
Derive(data, p) ==
  [ hdr |-> selected_columns,
    rows |-> [ i \in DOMAIN data.rows |->
                 DeriveRow(data.rows[p[i]],
                           to_datetime(data.rows[p[i]]["Formatted Date"])) ] ]

SortKeys(data) ==
  [ i \in DOMAIN data.rows |-> Instant(to_datetime(data.rows[i]["Formatted Date"])) ]

\* ---------------------------------------------------- fill_missing_values
PRECIP_FILL == "rain"

\* Forward fill, the strategy the docstring names: a missing value takes the
\* last value seen above it, and stays missing when there is none.
RECURSIVE LastSeen(_, _, _)
LastSeen(rows, col, i) ==
  IF i = 0 THEN NaN
  ELSE IF isnull(rows[i][col]) THEN LastSeen(rows, col, i - 1)
  ELSE rows[i][col]

FillPrecip_ffill(df) ==
  [ df EXCEPT !.rows =
      [ i \in DOMAIN df.rows |->
          [ df.rows[i] EXCEPT !["Precip Type"] = LastSeen(df.rows, "Precip Type", i) ] ] ]

\* df["Precip Type"] = "rain": every row is overwritten.
FillPrecip_overwrite(df) ==
  [ df EXCEPT !.rows =
      [ i \in DOMAIN df.rows |->
          [ df.rows[i] EXCEPT !["Precip Type"] = StrV(TWord(PRECIP_FILL)) ] ] ]

\* df.fillna("rain", inplace=True): every column of the frame is filled.
FillPrecip_wholeframe(df) ==
  [ df EXCEPT !.rows =
      [ i \in DOMAIN df.rows |->
          [ col \in Range(df.hdr) |->
              IF isnull(df.rows[i][col])
              THEN StrV(TWord(PRECIP_FILL)) ELSE df.rows[i][col] ] ] ]

\* df["Precip Type"].fillna("rain", inplace=True)
FillPrecip(df) ==
  [ df EXCEPT !.rows =
      [ i \in DOMAIN df.rows |->
          IF isnull(df.rows[i]["Precip Type"])
          THEN [ df.rows[i] EXCEPT !["Precip Type"] = StrV(TWord(PRECIP_FILL)) ]
          ELSE df.rows[i] ] ]

\* Sum of the non-missing values of rows[1..i][col], as a fraction <<n, d>>.
RECURSIVE ColSum(_, _, _)
ColSum(rows, col, i) ==
  IF i = 0 THEN << 0, 1 >>
  ELSE LET rest == ColSum(rows, col, i - 1)
           v == rows[i][col]
       IN  IF isnull(v) THEN rest
           ELSE << rest[1] * v.b + v.a * rest[2], rest[2] * v.b >>

ColCount(rows, col) == Cardinality({ i \in DOMAIN rows : ~isnull(rows[i][col]) })

\* The sum divided by the number of rows, a missing value counting as 0.
ColMean_allrows(rows, col) ==
  LET total == ColSum(rows, col, Len(rows))
  IN  IF Len(rows) = 0 THEN NaN ELSE FloatV(total[1], total[2] * Len(rows))

\* Series.mean(): NaN values are skipped; the mean of no value is NaN.
ColMean(rows, col) ==
  LET total == ColSum(rows, col, Len(rows))
      count == ColCount(rows, col)
  IN  IF count = 0 THEN NaN ELSE FloatV(total[1], total[2] * count)

HasNull(rows, col) == \E i \in DOMAIN rows : isnull(rows[i][col])

\* One round of the loop over numerical_columns:
\*   if df[col].isnull().sum() > 0: df[col].fillna(df[col].mean(), inplace=True)
\* (filling with a NaN mean changes nothing).
FillColumn(df, col) ==
  IF HasNull(df.rows, col)
  THEN LET mean_val == ColMean(df.rows, col)
       IN  [ df EXCEPT !.rows =
               [ i \in DOMAIN df.rows |->
                   IF isnull(df.rows[i][col])
                   THEN [ df.rows[i] EXCEPT ![col] = mean_val ]
                   ELSE df.rows[i] ] ]
  ELSE df

RECURSIVE FillNumerical(_, _)
FillNumerical(df, cols) ==
  IF cols = << >> THEN df
  ELSE FillNumerical(FillColumn(df, Head(cols)), Tail(cols))

\* The table fill_missing_values writes and returns for the loaded frame df.
Fill(df) == FillNumerical(FillPrecip(df), numerical_columns)

\* mean() of an object column (a column holding str values) raises TypeError;
\* it is only called for a column that has a missing value.
FillError(df) ==
  IF \E col \in Range(numerical_columns) :
        /\ HasNull(df.rows, col)
        /\ \E i \in DOMAIN df.rows : df.rows[i][col].k = "str"
  THEN "TypeError" ELSE ""

\* ------------------------------------------------------------------ inputs
RawRow(ts, summary, precip, temp, wind, pressure, humidity) ==
  [ col \in Range(RawColumns) |->
      CASE col = "Formatted Date" -> ts
        [] col = "Summary" -> summary
        [] col = "Precip Type" -> precip
        [] col = "Temperature (C)" -> temp
        [] col = "Wind Speed (km/h)" -> wind
        [] col = "Pressure (millibars)" -> pressure
        [] OTHER -> humidity ]

\* 2015-03-15T10:00+00:00, the same instant written with offset +02:00, and
\* timestamps whose UTC date falls in another month or year than the local.
Timestamps ==
  { TTs(20150315, 10, 0), TTs(20150315, 12, 2),
    TTs(20160101, 0, 2), TTs(20151231, 23, -2), TTs(20160229, 23, -1) }

TemporalRows ==
  { RawRow(ts, TWord("Clear"), TEmpty, TFloat(10, 1), TFloat(5, 1), TFloat(1012, 1), TFloat(1, 2)) :
      ts \in Timestamps }
  \cup { RawRow(TTs(20150731, 22, 0), TWord("Foggy"), TWord("rain"), TFloat(18, 1),
                TFloat(5, 1), TFloat(1012, 1), TFloat(89, 100)) }

TemperatureRows ==
  { RawRow(TTs(20150315, 10, 0), TWord("Clear"), pr, t, TFloat(5, 1), TInt(1012), TFloat(1, 2)) :
      pr \in { TEmpty, TWord("snow") },
      t \in { TEmpty, TInt(10), TInt(30), TFloat(-11, 2) } }

NumericRows ==
  { RawRow(TTs(20151231, 23, -2), TEmpty, TWord("rain"), TFloat(10, 1), w, p, h) :
      w \in { TEmpty, TFloat(5, 1) },
      p \in { TEmpty, TInt(1012) },
      h \in { TEmpty, TFloat(1, 2) } }

\* Rows that make a stage fail: a timestamp that is missing or is no
\* timestamp, a temperature that is no number.
BadRows ==
  { RawRow(ts, TWord("Clear"), TEmpty, t, TFloat(5, 1), TFloat(1012, 1), TFloat(1, 2)) :
      ts \in { TTs(20150315, 10, 0), TEmpty, TWord("yesterday") },
      t \in { TEmpty, TWord("warm") } }

Tables(rowset) == UNION { [1..n -> rowset] : n \in 0..MaxRows }

CsvFile(hdr, rows) == [ exists |-> TRUE, hdr |-> hdr, rows |-> rows ]

\* The raw file with one column left out.
WithoutColumn(col) ==
  LET hdr == SelectSeq(RawColumns, LAMBDA c : c # col)
      full == RawRow(TTs(20150315, 10, 0), TWord("Clear"), TEmpty,
                     TFloat(10, 1), TFloat(5, 1), TFloat(1012, 1), TFloat(1, 2))
  IN  CsvFile(hdr, << [ c \in Range(hdr) |-> full[c] ] >>)

TemporalFiles == { CsvFile(RawColumns, t) : t \in Tables(TemporalRows) }

\* Hourly observations listed latest first: row i is of hour 20 - i.
Hourly(t) ==
  [ i \in DOMAIN t |-> [ t[i] EXCEPT !["Formatted Date"] = TTs(20150315, 20 - i, 0) ] ]

NumericFiles ==
  { CsvFile(RawColumns, Hourly(t)) :
      t \in Tables(TemperatureRows) \cup Tables(NumericRows) }

BadFiles ==
  { CsvFile(RawColumns, t) : t \in Tables(BadRows) }
  \cup { WithoutColumn(col) : col \in Range(RawColumns) }
  \cup { Absent }

\* The row of the specification's scenario.
SpecRow ==
  RawRow(TTs(20150315, 10, 0), TWord("Clear"), TEmpty,
         TFloat(10, 1), TFloat(5, 1), TFloat(1012, 1), TFloat(1, 2))

\* An artifact an earlier run left in the directory.
StaleRow ==
  RawRow(StrV(TTs(20140101, 0, 0)), StrV(TWord("Foggy")), StrV(TWord("snow")),
         FloatV(1, 1), FloatV(2, 1), FloatV(1000, 1), FloatV(1, 4))

StaleArtifact ==
  to_csv([ hdr |-> selected_columns,
           rows |-> << DeriveRow(StaleRow, to_datetime(StaleRow["Formatted Date"])) >> ])

\* What the user may type at a year prompt.
YearInputs == { TInt(2015), TInt(1999), TWord("skip"), TWord("abc") }

FileNames == { DATA_FILE, FILTERED_DATA_FILE, FILLED_DATA_FILE }

\* ------------------------------------------------------------------- state
VARIABLES
  files,        \* the working directory: file name -> CSV file or Absent
  pc,           \* where main is
  exit_code,    \* the status passed to sys.exit, once pc = "exit"
  error,        \* the error message the last step printed, NoError if none
  raw_data,     \* main's raw_data
  indexer,      \* the row order sort_values chose in filter_data
  df_filtered,  \* main's df_filtered
  df_filled,    \* main's df_filled
  written,      \* the files this run has written
  menu_shown,   \* display_menu has printed the menu
  df,           \* visualize_data's df, the frame the year prompts search
  year_input,   \* the last line read by a year prompt
  figure        \* the last figure saved by a year prompt

vars ==
  << files, pc, exit_code, error, raw_data, indexer, df_filtered, df_filled,
     written, menu_shown, df, year_input, figure >>

NoError == [ stage |-> "", exc |-> "", years |-> {} ]

Error(stage, exc) == [ stage |-> stage, exc |-> exc, years |-> {} ]

NoFigure == [ name |-> "", year |-> NaN, rows |-> << >> ]

\* The state after construction, for the data file and the artifacts found
\* in the working directory.
InitWith(data, artifact) ==
  /\ files = [ f \in FileNames |-> IF f = DATA_FILE THEN data ELSE artifact ]
  /\ pc = "main"
  /\ exit_code = 0
  /\ error = NoError
  /\ raw_data = None
  /\ indexer = << >>
  /\ df_filtered = None
  /\ df_filled = None
  /\ written = {}
  /\ menu_shown = FALSE
  /\ df = None
  /\ year_input = TEmpty
  /\ figure = NoFigure

\* Runs on failing and on a few good inputs, in an empty directory or in one
\* that holds the artifacts of an earlier run.
Init ==
  \E data \in BadFiles \cup { CsvFile(RawColumns, t) : t \in Tables({ SpecRow }) } :
    \E artifact \in { Absent, StaleArtifact } : InitWith(data, artifact)

\* Runs on tables that differ in their timestamps.
InitDerive == \E data \in TemporalFiles : InitWith(data, Absent)

\* Runs on tables that differ in the values to impute.
InitImpute == \E data \in NumericFiles : InitWith(data, Absent)

\* ------------------------------------------------------------------ actions
\* sys.exit(0) in place of sys.exit(code).
Exit_zero(stage, exc, code) ==
  /\ pc' = "exit"
  /\ exit_code' = 0
  /\ error' = Error(stage, exc)

\* sys.exit(code) after the message for exception exc raised in stage.
Exit(stage, exc, code) ==
  /\ pc' = "exit"
  /\ exit_code' = code
  /\ error' = Error(stage, exc)

\* main, up to the call of filter_data: the data file is checked and loaded.
main_load ==
  /\ pc = "main"
  /\ IF ~files[DATA_FILE].exists
     THEN /\ Exit("main", "data file not found", 1)
          /\ UNCHANGED raw_data
     ELSE /\ raw_data' = read_csv(files[DATA_FILE])
          /\ pc' = "filter_data"
          /\ UNCHANGED << exit_code, error >>
  /\ UNCHANGED << files, indexer, df_filtered, df_filled, written, menu_shown,
                  df, year_input, figure >>

\* filter_data(raw_data): on an exception nothing is written and the process
\* exits with status 1; otherwise the derived table is written and returned.
filter_data ==
  /\ pc = "filter_data"
  /\ IF FilterError(raw_data) # ""
     THEN /\ Exit("filter_data", FilterError(raw_data), 1)
          /\ UNCHANGED << files, indexer, df_filtered, written >>
     ELSE \E p \in SortOrders(SortKeys(raw_data)) :
            /\ indexer' = p
            /\ df_filtered' = Derive(raw_data, p)
            /\ files' = [ files EXCEPT ![FILTERED_DATA_FILE] = to_csv(Derive(raw_data, p)) ]
            /\ written' = written \cup { FILTERED_DATA_FILE }
            /\ pc' = "fill_missing_values"
            /\ UNCHANGED << exit_code, error >>
  /\ UNCHANGED << raw_data, df_filled, menu_shown, df, year_input, figure >>

\* fill_missing_values with "return None" in place of sys.exit(1) when the
\* input file is absent: main goes on to the menu.
fill_missing_values_return ==
  /\ pc = "fill_missing_values"
  /\ IF ~files[FILTERED_DATA_FILE].exists
     THEN /\ error' = Error("fill_missing_values", "FileNotFoundError")
          /\ pc' = "menu"
          /\ menu_shown' = TRUE
          /\ UNCHANGED << files, df_filled, written, exit_code >>
     ELSE LET loaded == read_csv(files[FILTERED_DATA_FILE])
          IN  IF FillError(loaded) # ""
              THEN /\ Exit("fill_missing_values", FillError(loaded), 1)
                   /\ UNCHANGED << files, df_filled, written, menu_shown >>
              ELSE /\ df_filled' = Fill(loaded)
                   /\ files' = [ files EXCEPT ![FILLED_DATA_FILE] = to_csv(Fill(loaded)) ]
                   /\ written' = written \cup { FILLED_DATA_FILE }
                   /\ pc' = "menu"
                   /\ menu_shown' = TRUE
                   /\ UNCHANGED << exit_code, error >>
  /\ UNCHANGED << raw_data, indexer, df_filtered, df, year_input, figure >>

\* fill_missing_values() with its default file names, then main goes on to
\* display_menu, which prints the menu and waits for the choice.
fill_missing_values ==
  /\ pc = "fill_missing_values"
  /\ IF ~files[FILTERED_DATA_FILE].exists
     THEN /\ Exit("fill_missing_values", "FileNotFoundError", 1)
          /\ UNCHANGED << files, df_filled, written, menu_shown >>
     ELSE LET loaded == read_csv(files[FILTERED_DATA_FILE])
          IN  IF FillError(loaded) # ""
              THEN /\ Exit("fill_missing_values", FillError(loaded), 1)
                   /\ UNCHANGED << files, df_filled, written, menu_shown >>
              ELSE /\ df_filled' = Fill(loaded)
                   /\ files' = [ files EXCEPT ![FILLED_DATA_FILE] = to_csv(Fill(loaded)) ]
                   /\ written' = written \cup { FILLED_DATA_FILE }
                   /\ pc' = "menu"
                   /\ menu_shown' = TRUE
                   /\ UNCHANGED << exit_code, error >>
  /\ UNCHANGED << raw_data, indexer, df_filtered, df, year_input, figure >>

\* The directory is not the program's alone: an artifact may be removed
\* between two stages (the stages test os.path.exists for this reason).
remove_artifact ==
  /\ \/ /\ pc = "fill_missing_values"
        /\ files[FILTERED_DATA_FILE].exists
        /\ files' = [ files EXCEPT ![FILTERED_DATA_FILE] = Absent ]
     \/ /\ pc = "menu"
        /\ files[FILLED_DATA_FILE].exists
        /\ files' = [ files EXCEPT ![FILLED_DATA_FILE] = Absent ]
  /\ UNCHANGED << pc, exit_code, error, raw_data, indexer, df_filtered, df_filled,
                  written, menu_shown, df, year_input, figure >>

\* Menu choice "1": visualize_data loads FILLED_DATA_FILE, draws the fixed
\* figures and reaches the first year prompt; without the file it prints an
\* error and returns to the menu.
visualize_data ==
  /\ pc = "menu"
  /\ IF ~files[FILLED_DATA_FILE].exists
     THEN /\ error' = Error("visualize_data", "filled data not found")
          /\ UNCHANGED << pc, df >>
     ELSE /\ df' = read_csv(files[FILLED_DATA_FILE])
          /\ pc' = "precipitation_prompt"
          /\ error' = NoError
  /\ year_input' = TEmpty
  /\ figure' = NoFigure
  /\ UNCHANGED << files, exit_code, raw_data, indexer, df_filtered,
                  df_filled, written, menu_shown >>

\* year not in data["year"].values, data[data["year"] == year]: numpy compares
\* element by element, and a str never equals an int64.
YearMatches(v, year) == v = year

YearFound(data, year) ==
  \E i \in DOMAIN data.rows : YearMatches(data.rows[i]["year"], year)

RowsOfYear(data, year) ==
  SelectSeq(data.rows, LAMBDA r : YearMatches(r["year"], year))

\* sorted(data['year'].unique()), the years the "not found" message lists.
AvailableYears(data) == { data.rows[i]["year"] : i \in DOMAIN data.rows }

YearNotFound(data) ==
  [ stage |-> pc, exc |-> "year not found", years |-> AvailableYears(data) ]

\* break in place of continue after the "not found" message.
YearPrompt_break(inp, name, next) ==
  /\ year_input' = inp
  /\ IF inp = TWord("skip")
     THEN /\ pc' = next
          /\ error' = NoError
          /\ UNCHANGED figure
     ELSE IF inp.f # "int"
     THEN /\ error' = Error(pc, "invalid input")
          /\ UNCHANGED << pc, figure >>
     ELSE LET year == StrV(TInt(inp.a))
          IN  IF ~YearFound(df, year)
              THEN /\ error' = YearNotFound(df)
                   /\ pc' = next
                   /\ UNCHANGED figure
              ELSE /\ figure' = [ name |-> name, year |-> year,
                                  rows |-> RowsOfYear(df, year) ]
                   /\ error' = NoError
                   /\ pc' = next
  /\ UNCHANGED << files, exit_code, raw_data, indexer, df_filtered,
                  df_filled, written, menu_shown, df >>

\* One round of the while loop of a year prompt, for the line inp; next is
\* where the run goes when the loop is left.
YearPrompt(inp, name, next) ==
  /\ year_input' = inp
  /\ IF inp = TWord("skip")
     THEN /\ pc' = next
          /\ error' = NoError
          /\ UNCHANGED figure
     ELSE IF inp.f # "int"
     THEN /\ error' = Error(pc, "invalid input")
          /\ UNCHANGED << pc, figure >>
     ELSE LET year == StrV(TInt(inp.a))
          IN  IF ~YearFound(df, year)
              THEN /\ error' = YearNotFound(df)
                   /\ UNCHANGED << pc, figure >>
              ELSE /\ figure' = [ name |-> name, year |-> year,
                                  rows |-> RowsOfYear(df, year) ]
                   /\ error' = NoError
                   /\ pc' = next
  /\ UNCHANGED << files, exit_code, raw_data, indexer, df_filtered,
                  df_filled, written, menu_shown, df >>

plot_precipitation_by_year_month ==
  /\ pc = "precipitation_prompt"
  /\ \E inp \in YearInputs : YearPrompt(inp, "14_precipitation", "conditions_prompt")

plot_conditions_by_year_season ==
  /\ pc = "conditions_prompt"
  /\ \E inp \in YearInputs : YearPrompt(inp, "15_conditions", "menu")

\* Menu choices "2" and "3": a report or a preview of FILLED_DATA_FILE.
analysis_data ==
  /\ pc = "menu"
  /\ error' = IF files[FILLED_DATA_FILE].exists
              THEN NoError ELSE Error("analysis_data", "filled data not found")
  /\ UNCHANGED << files, pc, exit_code, raw_data, indexer, df_filtered,
                  df_filled, written, menu_shown, df, year_input, figure >>

preview_data ==
  /\ pc = "menu"
  /\ error' = IF files[FILLED_DATA_FILE].exists
              THEN NoError ELSE Error("preview_data", "filled data not found")
  /\ UNCHANGED << files, pc, exit_code, raw_data, indexer, df_filtered,
                  df_filled, written, menu_shown, df, year_input, figure >>

\* sys.exit(1) in place of continue after the "Invalid choice" message.
invalid_choice_exit ==
  /\ pc = "menu"
  /\ pc' = "exit"
  /\ exit_code' = 1
  /\ error' = Error("main", "invalid choice")
  /\ UNCHANGED << files, raw_data, indexer, df_filtered, df_filled,
                  written, menu_shown, df, year_input, figure >>

\* Any other line than "1".."4".
invalid_choice ==
  /\ pc = "menu"
  /\ error' = Error("main", "invalid choice")
  /\ UNCHANGED << files, pc, exit_code, raw_data, indexer, df_filtered,
                  df_filled, written, menu_shown, df, year_input, figure >>

\* Menu choice "4": the loop ends and main returns.
main_exit ==
  /\ pc = "menu"
  /\ pc' = "exit"
  /\ exit_code' = 0
  /\ error' = NoError
  /\ UNCHANGED << files, raw_data, indexer, df_filtered, df_filled,
                  written, menu_shown, df, year_input, figure >>

Next ==
  \/ main_load
  \/ filter_data
  \/ fill_missing_values
  \/ remove_artifact
  \/ visualize_data
  \/ plot_precipitation_by_year_month
  \/ plot_conditions_by_year_season
  \/ analysis_data
  \/ preview_data
  \/ invalid_choice
  \/ main_exit

Spec == Init /\ [][Next]_vars

SpecDerive == InitDerive /\ [][Next]_vars

SpecImpute == InitImpute /\ [][Next]_vars

\* ================================================================== claims
TargetColumns == { "Precip Type" } \cup Range(numerical_columns)

\* fill_missing_values has written FILLED_DATA_FILE and returned df_filled.
Imputed == FILLED_DATA_FILE \in written

\* The table fill_missing_values loaded (the artifact is not removed once
\* it has been read).
Loaded == read_csv(files[FILTERED_DATA_FILE])

\* A numeric column of t that is missing in every row.
AllMissingColumn(t) ==
  \E col \in Range(numerical_columns) :
    /\ Len(t.rows) > 0
    /\ \A i \in DOMAIN t.rows : isnull(t.rows[i][col])

\* C1: after fill_missing_values has completed, no row has a missing value in
\* any of the five target columns, in the returned table and in the written
\* artifact, also for a table with a numeric column missing in every row.
C1_NoMissingAfterImpute ==
  Imputed =>
    /\ \A i \in DOMAIN df_filled.rows : \A col \in TargetColumns :
         ~isnull(df_filled.rows[i][col])
    /\ files[FILLED_DATA_FILE].exists =>
         \A i \in DOMAIN files[FILLED_DATA_FILE].rows : \A col \in TargetColumns :
           files[FILLED_DATA_FILE].rows[i][col].f # "empty"

\* C2: when a numeric column of the loaded table is missing in every row,
\* fill_missing_values ends the process with an EmptyColumnError and a
\* non-zero status, and writes no FILLED_DATA_FILE.
C2_EmptyColumnFails ==
  ( /\ pc \notin { "main", "filter_data", "fill_missing_values" }
    /\ FILTERED_DATA_FILE \in written
    /\ files[FILTERED_DATA_FILE].exists
    /\ AllMissingColumn(Loaded) )
  => /\ pc = "exit"
     /\ exit_code # 0
     /\ error = Error("fill_missing_values", "EmptyColumnError")
     /\ FILLED_DATA_FILE \notin written

\* The sum of the non-missing values of rows[1..i][col] in halves (every
\* input value of the model is a multiple of 1/2).
RECURSIVE SumInHalves(_, _, _)
SumInHalves(rows, col, i) ==
  IF i = 0 THEN 0
  ELSE SumInHalves(rows, col, i - 1)
       + (IF isnull(rows[i][col]) THEN 0 ELSE (2 * rows[i][col].a) \div rows[i][col].b)

\* m is the arithmetic mean of the non-missing values of the column.
IsMeanOf(m, rows, col) ==
  /\ m.k = "float"
  /\ m.b * SumInHalves(rows, col, Len(rows))
       = 2 * m.a * Cardinality({ i \in DOMAIN rows : ~isnull(rows[i][col]) })

ColumnOrders ==
  { [ i \in DOMAIN numerical_columns |-> numerical_columns[q[i]] ] :
      q \in RowOrders(Len(numerical_columns)) }

\* The state in which fill_missing_values has just returned to main.
JustImputed ==
  /\ Imputed
  /\ pc = "menu"
  /\ error = NoError
  /\ year_input = TEmpty
  /\ files[FILLED_DATA_FILE].exists

\* C3: in each numeric column that has a non-missing value, every missing
\* value is replaced by the arithmetic mean of the non-missing input values of
\* that column, in the returned table and in the artifact; and processing the
\* four columns in any other order gives the same table.
C3_MeanImputation ==
  JustImputed =>
    LET loaded == Loaded
    IN  /\ \A col \in Range(numerical_columns) : \A i \in DOMAIN loaded.rows :
             ( /\ isnull(loaded.rows[i][col])
               /\ \E j \in DOMAIN loaded.rows : ~isnull(loaded.rows[j][col]) )
             => /\ IsMeanOf(df_filled.rows[i][col], loaded.rows, col)
                /\ files[FILLED_DATA_FILE].rows[i][col] = FormatCell(df_filled.rows[i][col])
        /\ \A cols \in ColumnOrders :
             FillNumerical(FillPrecip(loaded), cols) = df_filled

\* The scenario [10, missing, 30]: the missing temperature became 20.
C3_Witness ==
  /\ JustImputed
  /\ Len(Loaded.rows) = 3
  /\ Loaded.rows[1]["Temperature (C)"] = FloatV(10, 1)
  /\ isnull(Loaded.rows[2]["Temperature (C)"])
  /\ Loaded.rows[3]["Temperature (C)"] = FloatV(30, 1)
  /\ df_filled.rows[2]["Temperature (C)"] = FloatV(20, 1)

C4_WitnessAllMissing ==
  /\ JustImputed
  /\ Len(Loaded.rows) >= 2
  /\ \A i \in DOMAIN Loaded.rows : isnull(Loaded.rows[i]["Precip Type"])
  /\ \A i \in DOMAIN df_filled.rows : df_filled.rows[i]["Precip Type"] = StrV(TWord("rain"))

\* C5: the row order filter_data produces is a permutation of the input rows
\* that is ascending by the UTC timestamp, and rows with equal timestamps keep
\* their input order.
C5_StableSort ==
  FILTERED_DATA_FILE \in written =>
    LET keys == SortKeys(raw_data)
        n == Len(raw_data.rows)
    IN  /\ indexer \in RowOrders(n)
        /\ \A i, j \in 1..n : i < j => keys[indexer[i]] <= keys[indexer[j]]
        /\ \A i, j \in 1..n :
             (i < j /\ keys[indexer[i]] = keys[indexer[j]]) => indexer[i] < indexer[j]

\* The month-to-season table of the specification.
SeasonAgrees(r) ==
  /\ r["month"].k = "str"
  /\ r["season"].k = "str"
  /\ r["month"].s \in { "January", "February", "March", "April", "May", "June", "July",
                        "August", "September", "October", "November", "December" }
  /\ r["month"].s \in { "March", "April", "May" } => r["season"].s = "Spring"
  /\ r["month"].s \in { "June", "July", "August" } => r["season"].s = "Summer"
  /\ r["month"].s \in { "September", "October", "November" } => r["season"].s = "Fall"
  /\ r["month"].s \in { "December", "January", "February" } => r["season"].s = "Winter"

\* C6: in every row filter_data returns, and in every row of
\* FILLED_DATA_FILE as read back, month is one of the twelve names and season
\* is the season of that month.
C6_SeasonOfMonth ==
  /\ FILTERED_DATA_FILE \in written =>
       \A i \in DOMAIN df_filtered.rows : SeasonAgrees(df_filtered.rows[i])
  /\ JustImputed =>
       LET reloaded == read_csv(files[FILLED_DATA_FILE])
       IN  \A i \in DOMAIN reloaded.rows : SeasonAgrees(reloaded.rows[i])

\* A December row and a March row went through both stages.
C6_Witness ==
  /\ JustImputed
  /\ \E i, j \in DOMAIN df_filtered.rows :
       /\ df_filtered.rows[i]["month"].s = "December"
       /\ df_filtered.rows[i]["season"].s = "Winter"
       /\ df_filtered.rows[j]["month"].s = "March"
       /\ read_csv(files[FILLED_DATA_FILE]).rows[j]["season"].s = "Spring"

\* C7: imputing the table read back from FILTERED_DATA_FILE gives the same
\* table, with the same kinds of values, as imputing filter_data's in-memory
\* result.
C7_RoundTripLossless ==
  JustImputed => df_filled = Fill(df_filtered)

NoMissingTargets(t) ==
  \A i \in DOMAIN t.rows : \A col \in TargetColumns : ~isnull(t.rows[i][col])

\* C8: when the loaded table has no missing value in the five target columns,
\* fill_missing_values returns it unchanged and writes a file equal to the one
\* it read; the same holds for imputing the file it has just written.
C8_Idempotent ==
  JustImputed =>
    LET loaded == Loaded
        again == read_csv(files[FILLED_DATA_FILE])
    IN  /\ NoMissingTargets(loaded) =>
             /\ df_filled = loaded
             /\ files[FILLED_DATA_FILE] = files[FILTERED_DATA_FILE]
        /\ NoMissingTargets(again) =>
             /\ FillError(again) = ""
             /\ Fill(again) = again
             /\ to_csv(Fill(again)) = files[FILLED_DATA_FILE]

\* A table of two rows or more without a missing target value, one of them
\* "snow", was imputed.
C8_Witness ==
  /\ JustImputed
  /\ Len(Loaded.rows) >= 2
  /\ NoMissingTargets(Loaded)
  /\ \E i \in DOMAIN Loaded.rows : Loaded.rows[i]["Precip Type"] = StrV(TWord("snow"))
  /\ df_filled = Loaded

\* The raw table lacks a required column, or a timestamp is missing or is no
\* timestamp.
BadInput(data) ==
  \/ ~(Range(RawColumns) \subseteq Range(data.hdr))
  \/ \E i \in DOMAIN data.rows :
       \/ data.rows[i]["Formatted Date"].k # "str"
       \/ data.rows[i]["Formatted Date"].f # "ts"

\* C9: a failing input ends filter_data with a non-zero exit before anything
\* is written; an absent FILTERED_DATA_FILE ends fill_missing_values with a
\* non-zero exit before FILLED_DATA_FILE is written; an exit from either
\* stage leaves that stage's artifact as it was, and the menu is never shown.
C9_FatalErrorsAbort ==
  /\ ( /\ pc \notin { "main", "filter_data" }
       /\ raw_data # None
       /\ BadInput(raw_data) )
     => /\ pc = "exit"
        /\ error.stage = "filter_data"
  /\ ( /\ pc \notin { "main", "filter_data", "fill_missing_values" }
       /\ FILTERED_DATA_FILE \in written
       /\ ~files[FILTERED_DATA_FILE].exists )
     => /\ pc = "exit"
        /\ error = Error("fill_missing_values", "FileNotFoundError")
  /\ (pc = "exit" /\ error.stage = "filter_data")
     => /\ exit_code # 0
        /\ written = {}
        /\ files[FILTERED_DATA_FILE] \in { Absent, StaleArtifact }
        /\ ~menu_shown
  /\ (pc = "exit" /\ error.stage = "fill_missing_values")
     => /\ exit_code # 0
        /\ FILLED_DATA_FILE \notin written
        /\ files[FILLED_DATA_FILE] \in { Absent, StaleArtifact }
        /\ ~menu_shown

\* A timestamp that cannot be parsed ended filter_data with status 1, and the
\* artifact of the earlier run is still in place.
C9_Witness ==
  /\ pc = "exit"
  /\ error = Error("filter_data", "ValueError")
  /\ exit_code = 1
  /\ files[FILTERED_DATA_FILE] = StaleArtifact

\* FILTERED_DATA_FILE was removed before fill_missing_values read it.
C9_WitnessNotFound ==
  /\ pc = "exit"
  /\ error = Error("fill_missing_values", "FileNotFoundError")
  /\ exit_code = 1
  /\ FILTERED_DATA_FILE \in written

\* C10: after a year prompt has read a year that some row of the loaded
\* artifact carries, the figure of that prompt for exactly the rows of that
\* year has been saved and the prompt loop has been left.
C10_YearAccepted ==
  ( /\ year_input.f = "int"
    /\ \E i \in DOMAIN df.rows : FormatCell(df.rows[i]["year"]) = year_input )
  => /\ figure.name # ""
     /\ FormatCell(figure.year) = year_input
     /\ figure.rows = SelectSeq(df.rows, LAMBDA r : FormatCell(r["year"]) = year_input)
     /\ figure.name = "14_precipitation" => pc = "conditions_prompt"
     /\ figure.name = "15_conditions" => pc \in { "menu", "exit" }

YearPrompts == { "precipitation_prompt", "conditions_prompt" }

\* Some row of the loaded artifact carries the year typed.
YearOnRecord(inp) ==
  \E i \in DOMAIN df.rows : FormatCell(df.rows[i]["year"]) = inp

\* What a step taken at a year prompt does.
YearPromptRound ==
  /\ (year_input'.f = "int" /\ ~YearOnRecord(year_input')) =>
       /\ pc' = pc
       /\ exit_code' = exit_code
       /\ figure' = figure
       /\ error'.stage = pc
       /\ error'.exc = "year not found"
       /\ error'.years = { df.rows[i]["year"] : i \in DOMAIN df.rows }
  /\ pc' # pc =>
       \/ year_input' = TWord("skip")
       \/ (year_input'.f = "int" /\ YearOnRecord(year_input'))

\* C11: a round of a year prompt that reads a year no row carries prints
\* "not found" with the years of the data, saves no figure, does not exit and
\* stays at the same prompt; a year prompt is left only by the line "skip" or
\* by a year that some row carries.
C11_UnmatchedYearReprompts ==
  [][ (pc \in YearPrompts) => YearPromptRound ]_vars

\* The year 1999 was typed at the precipitation prompt of a table with rows.
C11_Witness ==
  /\ pc = "precipitation_prompt"
  /\ year_input = TInt(1999)
  /\ Len(df.rows) > 0
  /\ error.exc = "year not found"
  /\ error.years # {}
  /\ figure = NoFigure

\* The columns fill_missing_values has no assignment to.
OtherColumns == Range(selected_columns) \ TargetColumns

\* C12: fill_missing_values keeps the header, the number and the order of the
\* rows; every cell of date, time, year, month, hour, season and Summary has
\* the value and the missingness it was loaded with; every target cell that
\* was loaded non-missing keeps its value; in the returned table and in the
\* written artifact.
C12_ImputeFrame ==
  JustImputed =>
    LET loaded == Loaded
        A == files[FILTERED_DATA_FILE]
        B == files[FILLED_DATA_FILE]
    IN  /\ df_filled.hdr = loaded.hdr
        /\ B.hdr = A.hdr
        /\ Len(df_filled.rows) = Len(loaded.rows)
        /\ Len(B.rows) = Len(A.rows)
        /\ \A i \in DOMAIN loaded.rows :
             /\ \A col \in OtherColumns :
                  /\ df_filled.rows[i][col] = loaded.rows[i][col]
                  /\ isnull(df_filled.rows[i][col]) = isnull(loaded.rows[i][col])
                  /\ B.rows[i][col] = A.rows[i][col]
             /\ \A col \in TargetColumns :
                  ~isnull(loaded.rows[i][col]) =>
                    /\ df_filled.rows[i][col] = loaded.rows[i][col]
                    /\ B.rows[i][col] = A.rows[i][col]

\* A table of two rows or more with a missing Summary, a filled target cell
\* and a target cell that was loaded with a value.
C12_Witness ==
  /\ JustImputed
  /\ Len(Loaded.rows) >= 2
  /\ \E i \in DOMAIN Loaded.rows :
       /\ isnull(Loaded.rows[i]["Summary"])
       /\ isnull(df_filled.rows[i]["Summary"])
  /\ \E i \in DOMAIN Loaded.rows, col \in TargetColumns :
       /\ isnull(Loaded.rows[i][col])
       /\ ~isnull(df_filled.rows[i][col])
  /\ \E i \in DOMAIN Loaded.rows, col \in TargetColumns :
       /\ ~isnull(Loaded.rows[i][col])
       /\ df_filled.rows[i][col] = Loaded.rows[i][col]

\* Days before the first of each month in a common year.
DaysBefore == << 0, 31, 59, 90, 120, 151, 181, 212, 243, 273, 304, 334 >>

\* The number of the day ymd in the proleptic Gregorian calendar.
DayNumber(ymd) ==
  LET y == ymd \div 10000
      m == (ymd \div 100) % 100
      d == ymd % 100
      leap == (y % 4 = 0 /\ y % 100 # 0) \/ y % 400 = 0
  IN  365 * y + y \div 4 - y \div 100 + y \div 400 + DaysBefore[m] + d
        - (IF leap /\ m <= 2 THEN 1 ELSE 0)

TwelveNames ==
  << "January", "February", "March", "April", "May", "June", "July",
     "August", "September", "October", "November", "December" >>

TwelveColumns ==
  << "date", "time", "year", "month", "hour", "season", "Summary",
     "Precip Type", "Temperature (C)", "Wind Speed (km/h)",
     "Pressure (millibars)", "Humidity(%)" >>

\* The row out is the reference derivation of the raw row in: its date and
\* hour name the same hour of the UTC time line as the timestamp with its
\* offset, year and month are those of that date, and the percentage is one
\* hundred times the humidity.
ReferenceDerivation(in, out) ==
  LET ts == in["Formatted Date"]
      ymd == out["date"].a
      m == (ymd \div 100) % 100
  IN  /\ out["hour"].k = "int"
      /\ out["hour"].a \in 0..23
      /\ m \in 1..12
      /\ (ymd % 100) \in 1..31
      /\ DayNumber(ymd) * 24 + out["hour"].a = DayNumber(ts.a) * 24 + ts.b - ts.c
      /\ out["time"] = TimeV(out["hour"].a)
      /\ out["year"] = StrV(TInt(ymd \div 10000))
      /\ out["month"] = StrV(TWord(TwelveNames[m]))
      /\ out["Humidity(%)"].k = "float"
      /\ out["Humidity(%)"].a * in["Humidity"].b =
           100 * in["Humidity"].a * out["Humidity(%)"].b

\* C13: every row filter_data returns is the reference derivation of the raw
\* row it was made from (month name at the 1-indexed UTC month, UTC hour in
\* 0..23, year the decimal string of the UTC year, Humidity(%) = Humidity x
\* 100), and the returned table and the written artifact have the twelve
\* columns in the fixed order.
C13_DeriveReference ==
  (FILTERED_DATA_FILE \in written /\ pc = "fill_missing_values") =>
    /\ df_filtered.hdr = TwelveColumns
    /\ files[FILTERED_DATA_FILE].exists => files[FILTERED_DATA_FILE].hdr = TwelveColumns
    /\ Len(df_filtered.rows) = Len(raw_data.rows)
    /\ \A i \in DOMAIN df_filtered.rows :
         /\ DOMAIN df_filtered.rows[i] = Range(TwelveColumns)
         /\ ReferenceDerivation(raw_data.rows[indexer[i]], df_filtered.rows[i])

\* The row 2015-03-15T10:00:00+00:00 with Humidity 0.5 became March, hour 10,
\* 50 percent, next to a row whose UTC date is the day before its local date.
C13_Witness ==
  /\ FILTERED_DATA_FILE \in written
  /\ files[FILTERED_DATA_FILE].hdr = TwelveColumns
  /\ pc = "fill_missing_values"
  /\ \E i \in DOMAIN df_filtered.rows :
       /\ raw_data.rows[indexer[i]]["Formatted Date"].a = 20150315
       /\ raw_data.rows[indexer[i]]["Formatted Date"].b = 10
       /\ raw_data.rows[indexer[i]]["Formatted Date"].c = 0
       /\ df_filtered.rows[i]["month"].s = "March"
       /\ df_filtered.rows[i]["hour"] = IntV(10)
       /\ df_filtered.rows[i]["Humidity(%)"] = FloatV(50, 1)
  /\ \E i \in DOMAIN df_filtered.rows :
       /\ raw_data.rows[indexer[i]]["Formatted Date"].a = 20160101
       /\ df_filtered.rows[i]["date"] = DateV(20151231)
       /\ df_filtered.rows[i]["hour"] = IntV(22)
       /\ df_filtered.rows[i]["year"].a = 2015
       /\ df_filtered.rows[i]["month"].s = "December"

PipelineError ==
  \/ error.stage \in { "filter_data", "fill_missing_values" }
  \/ (error.stage = "main" /\ error.exc # "invalid choice")

C14_WitnessMenu ==
  /\ error = Error("main", "invalid choice")
  /\ pc = "menu"
  /\ exit_code = 0

\* Where the run is while the menu loop and the reporting functions run.
ReportingStage == { "menu" } \cup YearPrompts

\* What one step does to the artifacts and to the order of the stages.
StagesInSequence ==
  /\ (FILTERED_DATA_FILE \in written' \ written) =>
       /\ pc = "filter_data"
       /\ pc' = "fill_missing_values"
       /\ FILLED_DATA_FILE \notin written
       /\ files'[FILTERED_DATA_FILE] = to_csv(df_filtered')
  /\ (FILLED_DATA_FILE \in written' \ written) =>
       /\ pc = "fill_missing_values"
       /\ FILTERED_DATA_FILE \in written
       /\ files[FILTERED_DATA_FILE] = to_csv(df_filtered)
       /\ df_filled' = Fill(read_csv(files[FILTERED_DATA_FILE]))
       /\ files'[FILLED_DATA_FILE] = to_csv(df_filled')
       /\ ~menu_shown
  /\ menu_shown' => { FILTERED_DATA_FILE, FILLED_DATA_FILE } \subseteq written'
  /\ pc' \in ReportingStage => pc \in { "fill_missing_values" } \cup ReportingStage
  /\ pc \in ReportingStage =>
       /\ { FILTERED_DATA_FILE, FILLED_DATA_FILE } \subseteq written
       /\ written' = written
       /\ exit_code = 0
       /\ files'[DATA_FILE] = files[DATA_FILE]
       /\ files'[FILTERED_DATA_FILE] = files[FILTERED_DATA_FILE]
       /\ files'[FILLED_DATA_FILE] # files[FILLED_DATA_FILE] =>
            /\ files'[FILLED_DATA_FILE] = Absent
            /\ UNCHANGED << pc, error, df, year_input, figure >>
       /\ df' # df =>
            /\ files[FILLED_DATA_FILE].exists
            /\ df' = read_csv(files[FILLED_DATA_FILE])

\* C15: FILTERED_DATA_FILE is written by filter_data before
\* fill_missing_values reads it; FILLED_DATA_FILE is written by
\* fill_missing_values, from that artifact, before the menu is first
\* displayed; no step of the menu and reporting stage is taken unless both
\* were written in this run; those steps load FILLED_DATA_FILE only and leave
\* both artifacts as they are (FILLED_DATA_FILE changes only by being removed
\* from outside).
C15_StagesInSequence ==
  [][ StagesInSequence ]_vars

\* visualize_data has loaded the artifact written in this run, over an
\* artifact of an earlier run, and waits at its first year prompt.
C15_Witness ==
  /\ pc = "precipitation_prompt"
  /\ written = { FILTERED_DATA_FILE, FILLED_DATA_FILE }
  /\ files[FILTERED_DATA_FILE].exists
  /\ files[FILTERED_DATA_FILE] # StaleArtifact
  /\ Len(df.rows) > 0
  /\ df = read_csv(files[FILLED_DATA_FILE])
  /\ files[FILLED_DATA_FILE] = to_csv(df_filled)

====
